---- MODULE Spec2Model ----
(***************************************************************************)
(* A state-machine model of js/app.js: the screen router (show), the       *)
(* persisted session flag, the login and transfer validators and their     *)
(* submit handlers.                                                        *)
(*                                                                         *)
(* Text typed by the user is a sequence of one-character strings, so that  *)
(* trim, parseFloat, the BSB-Account pattern and the length rules are      *)
(* computed character by character.  Messages built by the program are     *)
(* TLA+ strings.  Money is counted in cents; amounts typed by the user      *)
(* carry at most two decimals.                                             *)
(***************************************************************************)
EXTENDS Integers, Sequences, FiniteSets, TLC

(***************************************************************************)
(* Bounds of the model.                                                    *)
(***************************************************************************)
MaxAnnounce == 1
MaxToasts == 2
MaxToastId == 2
MaxCustLen == 2
MaxPassLen == 5
MaxGroupDigits == 4
MaxAccountDigits == 10

(***************************************************************************)
(* Program constants.                                                      *)
(***************************************************************************)
MinPassLen == 4
MaxDescLen == 40
TransferLimit == 1000000
Balance001 == 245035
Balance002 == 812000

sessionKey == "session_key"
NoValue == "<null>"

\* JavaScript values a parsed amount can take: a number (in cents), NaN, null.
Num(n) == [kind |-> "number", v |-> n]
NaN == [kind |-> "NaN", v |-> 0]
Null == [kind |-> "null", v |-> 0]

(***************************************************************************)
(* Characters and text.                                                    *)
(***************************************************************************)
Digits == <<"0", "1", "2", "3", "4", "5", "6", "7", "8", "9">>

IsDigit(c) == \E d \in 1..10 : Digits[d] = c

DigitVal(c) == (CHOOSE d \in 1..10 : Digits[d] = c) - 1

IsSpace(c) == c \in {" ", "\t"}

RECURSIVE Rep(_, _)
Rep(c, n) == IF n = 0 THEN <<>> ELSE <<c>> \o Rep(c, n - 1)

RECURSIVE Str(_)
Str(s) == IF s = <<>> THEN "" ELSE Head(s) \o Str(Tail(s))

RECURSIVE TrimLeft(_)
TrimLeft(s) ==
    IF s # <<>> /\ IsSpace(Head(s)) THEN TrimLeft(Tail(s)) ELSE s

RECURSIVE TrimRight(_)
TrimRight(s) ==
    IF s # <<>> /\ IsSpace(s[Len(s)])
    THEN TrimRight(SubSeq(s, 1, Len(s) - 1))
    ELSE s

\* String.prototype.trim
Trim(s) == TrimRight(TrimLeft(s))

\* What setAttribute(name, <boolean>) stores: the boolean as a string.
BoolAttr(b) == IF b THEN "true" ELSE "false"

RECURSIVE DigitPrefix(_)
DigitPrefix(s) ==
    IF s # <<>> /\ IsDigit(Head(s))
    THEN <<Head(s)>> \o DigitPrefix(Tail(s))
    ELSE <<>>

RECURSIVE DigitsValue(_)
DigitsValue(s) ==
    IF s = <<>> THEN 0
    ELSE 10 * DigitsValue(SubSeq(s, 1, Len(s) - 1)) + DigitVal(s[Len(s)])

(***************************************************************************)
(* sanitizeInput: the text is assigned to textContent and read back as     *)
(* innerHTML, which escapes the ampersand and the angle brackets.          *)
(***************************************************************************)
EscapeChar(c) ==
    CASE c = "&" -> <<"&", "a", "m", "p", ";">>
      [] c = "<" -> <<"&", "l", "t", ";">>
      [] c = ">" -> <<"&", "g", "t", ";">>
      [] OTHER -> <<c>>

RECURSIVE sanitizeInput(_)
sanitizeInput(s) ==
    IF s = <<>> THEN <<>> ELSE EscapeChar(Head(s)) \o sanitizeInput(Tail(s))

(***************************************************************************)
(* parseFloat, in cents: leading white space, an optional sign, digits, an *)
(* optional fraction; whatever follows is ignored; NaN without any digit.  *)
(* Exponents are not in the input alphabet of the model.                   *)
(***************************************************************************)
ParseFloat(s) ==
    LET t == TrimLeft(s)
        signed == t # <<>> /\ Head(t) \in {"-", "+"}
        neg == t # <<>> /\ Head(t) = "-"
        body == IF signed THEN Tail(t) ELSE t
        ip == DigitPrefix(body)
        rest == SubSeq(body, Len(ip) + 1, Len(body))
        fp == IF rest # <<>> /\ Head(rest) = "."
              THEN DigitPrefix(Tail(rest)) ELSE <<>>
        f2 == SubSeq(fp \o <<"0", "0">>, 1, 2)
        mag == 100 * DigitsValue(ip) + DigitsValue(f2)
    IN  IF Len(ip) + Len(fp) = 0 THEN NaN
        ELSE IF neg THEN Num(0 - mag) ELSE Num(mag)

\* sanitizeNumber: null for NaN.
sanitizeNumber(value) ==
    LET num == ParseFloat(value) IN IF num.kind = "NaN" THEN Null ELSE num

\* Number.prototype.toFixed(2) of an amount in cents.
ToFixed2(cents) ==
    LET a == IF cents < 0 THEN 0 - cents ELSE cents
        c == a % 100
    IN  (IF cents < 0 THEN "-" ELSE "") \o ToString(a \div 100) \o "."
        \o (IF c < 10 THEN "0" ELSE "") \o ToString(c)

(***************************************************************************)
(* LOGIN VALIDATION                                                        *)
(***************************************************************************)
ErrCustRequired == "Customer ID is required"
ErrPassRequired == "Password is required"
ErrPassShort == "Password must be at least 4 characters"

\* validateLogin returning at the first error.
validateLoginFirstOnly(custValue, passValue) ==
    LET cust == Trim(custValue)
        pass == Trim(passValue)
        custErr == IF cust = <<>> THEN <<ErrCustRequired>> ELSE <<>>
        passErr == IF custErr # <<>> THEN <<>>
                   ELSE IF pass = <<>> THEN <<ErrPassRequired>>
                   ELSE IF Len(pass) < MinPassLen THEN <<ErrPassShort>>
                   ELSE <<>>
        errors == custErr \o passErr
    IN  [isValid |-> Len(errors) = 0,
         errors |-> errors,
         cust |-> sanitizeInput(cust),
         pass |-> pass,
         custAria |-> BoolAttr(custErr # <<>>),
         passAria |-> BoolAttr(passErr # <<>>)]

\* validateLogin with pass.length <= 4.
validateLoginOffByOne(custValue, passValue) ==
    LET cust == Trim(custValue)
        pass == Trim(passValue)
        custErr == IF cust = <<>> THEN <<ErrCustRequired>> ELSE <<>>
        passErr == IF pass = <<>> THEN <<ErrPassRequired>>
                   ELSE IF Len(pass) <= MinPassLen THEN <<ErrPassShort>>
                   ELSE <<>>
        errors == custErr \o passErr
    IN  [isValid |-> Len(errors) = 0,
         errors |-> errors,
         cust |-> sanitizeInput(cust),
         pass |-> pass,
         custAria |-> BoolAttr(custErr # <<>>),
         passAria |-> BoolAttr(passErr # <<>>)]

\* validateLogin, of the two field values; custAria and passAria are the
\* aria-invalid attributes it sets on the two inputs.
validateLogin(custValue, passValue) ==
    LET cust == Trim(custValue)
        pass == Trim(passValue)
        custErr == IF cust = <<>> THEN <<ErrCustRequired>> ELSE <<>>
        passErr == IF pass = <<>> THEN <<ErrPassRequired>>
                   ELSE IF Len(pass) < MinPassLen THEN <<ErrPassShort>>
                   ELSE <<>>
        errors == custErr \o passErr
    IN  [isValid |-> Len(errors) = 0,
         errors |-> errors,
         cust |-> sanitizeInput(cust),
         pass |-> pass,
         custAria |-> BoolAttr(custErr # <<>>),
         passAria |-> BoolAttr(passErr # <<>>)]

(***************************************************************************)
(* TRANSFER VALIDATION                                                     *)
(***************************************************************************)
ErrToRequired == "Destination account is required"
ErrToFormat == "Invalid BSB-Account format. Use: 062-000 12345678"
ErrAmountInvalid == "Please enter a valid amount"
ErrAmountZero == "Amount must be greater than $0.00"
ErrAmountLimit == "Transfer limit is $10,000.00 per transaction"
ErrDescLong == "Description must be 40 characters or less"
ErrFunds(balance) == "Insufficient funds. Available: $" \o ToFixed2(balance)

AllDigits(s) == \A i \in 1..Len(s) : IsDigit(s[i])

AllSpaces(s) == \A i \in 1..Len(s) : IsSpace(s[i])

\* /^\d{3}-?\d{3}\s*\d{6,9}$/ on t: a is where the second digit group
\* starts, b where the white space starts, c where the account digits start.
PatternMatches(t) ==
    \E a \in {4, 5} : \E b \in 1..(Len(t) + 1) : \E c \in 1..(Len(t) + 1) :
        /\ Len(t) >= 3
        /\ AllDigits(SubSeq(t, 1, 3))
        /\ a = 5 => (Len(t) >= 4 /\ t[4] = "-")
        /\ b = a + 3
        /\ b <= Len(t) + 1
        /\ AllDigits(SubSeq(t, a, b - 1))
        /\ c >= b
        /\ AllSpaces(SubSeq(t, b, c - 1))
        /\ Len(t) - c + 1 \in 6..9
        /\ AllDigits(SubSeq(t, c, Len(t)))

\* validateBSBAccount with a pattern that lacks the closing anchor.
validateBSBAccountNoEnd(value) ==
    \E n \in 1..Len(Trim(value)) : PatternMatches(SubSeq(Trim(value), 1, n))

validateBSBAccount(value) == PatternMatches(Trim(value))

\* validateAmount with amount >= balance.
validateAmountStrict(amount, balance) ==
    IF amount.kind \in {"null", "NaN"}
    THEN [valid |-> FALSE, error |-> ErrAmountInvalid]
    ELSE IF amount.v <= 0
    THEN [valid |-> FALSE, error |-> ErrAmountZero]
    ELSE IF balance.kind = "number" /\ amount.v >= balance.v
    THEN [valid |-> FALSE, error |-> "Insufficient funds. Available: $"
                                        \o ToFixed2(balance.v)]
    ELSE IF amount.v > TransferLimit
    THEN [valid |-> FALSE, error |-> ErrAmountLimit]
    ELSE [valid |-> TRUE, error |-> ""]

\* amount > balance is false when balance is not a number: an object
\* converts to NaN, and no number is greater than NaN.
validateAmount(amount, balance) ==
    IF amount.kind \in {"null", "NaN"}
    THEN [valid |-> FALSE, error |-> ErrAmountInvalid]
    ELSE IF amount.v <= 0
    THEN [valid |-> FALSE, error |-> ErrAmountZero]
    ELSE IF balance.kind = "number" /\ amount.v > balance.v
    THEN [valid |-> FALSE, error |-> ErrFunds(balance.v)]
    ELSE IF amount.v > TransferLimit
    THEN [valid |-> FALSE, error |-> ErrAmountLimit]
    ELSE [valid |-> TRUE, error |-> ""]

\* Names of the properties the object literal balances inherits from
\* Object.prototype: methods, and the prototype itself.
InheritedKeys ==
    {"constructor", "hasOwnProperty", "isPrototypeOf", "propertyIsEnumerable",
     "toLocaleString", "toString", "valueOf", "__proto__",
     "__defineGetter__", "__defineSetter__", "__lookupGetter__",
     "__lookupSetter__"}

\* balances[fromAccount] || 0: a number, or the inherited property, an
\* object, which is truthy.
BalanceOf(fromAccount) ==
    CASE fromAccount = "001" -> Num(Balance001)
      [] fromAccount = "002" -> Num(Balance002)
      [] fromAccount \in InheritedKeys -> [kind |-> "object", v |-> 0]
      [] OTHER -> Num(0)

\* validateTransfer, of the four field values; toAria, amountAria and
\* descAria are the aria-invalid attributes it sets on the three inputs.
validateTransfer(toValue, amountValue, descValue, fromAccount) ==
    LET to == Trim(toValue)
        amount == sanitizeNumber(amountValue)
        desc == Trim(descValue)
        balance == BalanceOf(fromAccount)
        toErr == IF to = <<>> THEN <<ErrToRequired>>
                 ELSE IF ~validateBSBAccount(to) THEN <<ErrToFormat>>
                 ELSE <<>>
        amountValidation == validateAmount(amount, balance)
        amountErr == IF ~amountValidation.valid
                     THEN <<amountValidation.error>> ELSE <<>>
        descErr == IF Len(desc) > MaxDescLen THEN <<ErrDescLong>> ELSE <<>>
        errors == toErr \o amountErr \o descErr
    IN  [isValid |-> Len(errors) = 0,
         errors |-> errors,
         data |-> [to |-> sanitizeInput(to), amount |-> amount,
                   desc |-> sanitizeInput(desc), from |-> fromAccount],
         toAria |-> BoolAttr(toErr # <<>>),
         amountAria |-> BoolAttr(amountErr # <<>>),
         descAria |-> BoolAttr(descErr # <<>>)]

(***************************************************************************)
(* THE PAGE                                                                *)
(***************************************************************************)
VARIABLES
    storage,          \* localStorage[sessionKey], NoValue when absent
    hidden,           \* hidden property of each section
    ariaHidden,       \* aria-hidden attribute of each section
    tabNavHidden,     \* hidden property of #appTabs
    tabs,             \* class "active" and aria-selected of each tab button
    logoutHidden,     \* hidden property of #logoutBtn
    announcements,    \* live announcement elements in the body
    loginForm,        \* #loginForm: fields, validity markers, status, button
    loginPending,     \* login submit handlers waiting in simulateAsync
    transferForm,     \* #transferForm, likewise
    transferPending,  \* validation.data of the transfer handlers waiting
    notified,         \* showToast calls made by the latest handler run
    call,             \* a validator called on its own: its name and arguments
    ret,              \* what that call returned, once it has
    toasts,           \* the toast elements in #toastContainer, in order
    toastCounter,     \* toastCounter
    pc,               \* a submit handler resumed after its await, followed
                      \* statement by statement: what it has left to run
    focused           \* which tab button has the focus: its place in
                      \* tabButtons, 0 when the focus is elsewhere

vars == <<storage, hidden, ariaHidden, tabNavHidden, tabs, logoutHidden,
          announcements, loginForm, loginPending, transferForm,
          transferPending, notified, call, ret, toasts, toastCounter, pc,
          focused>>

pageVars == <<storage, hidden, ariaHidden, tabNavHidden, tabs, logoutHidden,
              announcements, loginForm, loginPending, transferForm,
              transferPending, notified, focused>>

callVars == <<call, ret>>

\* The toast container.  The page's handlers record the notices they ask
\* for in notified; what the container does with a notice, from its
\* insertion to the firing of its timers, is followed in SpecToast.
sinkVars == <<toasts, toastCounter>>

navVars == <<hidden, ariaHidden, tabNavHidden, tabs, announcements>>

sections == <<"login", "dashboard", "transactions", "transfer">>

Sections == {sections[i] : i \in 1..Len(sections)}

\* data-tab of the buttons of #appTabs, in document order.
tabButtons == <<"dashboard", "transactions", "transfer">>

TabIndex == 1..Len(tabButtons)

\* What localStorage may hold under sessionKey when the page loads.
StorageVals == {NoValue, "0", "1", "", "true", "01"}

\* A toast as showToast is asked for it.
Toast(message, type, duration) ==
    [message |-> message, type |-> type, duration |-> duration]

\* One showToast call; type and duration default to info and 4000.
showToast(message, type, duration) == <<Toast(message, type, duration)>>

\* isAuthed as a test of truthiness: any stored text but the empty one.
isAuthedTruthy(stored) == stored # NoValue /\ stored # ""

\* isAuthed(), of what localStorage.getItem(sessionKey) returns.
isAuthed(stored) == stored = "1"

\* setAuthed storing the boolean itself, which the storage makes a string.
setAuthedString(value) == IF value THEN "true" ELSE "false"

\* setAuthed(value): what localStorage.setItem(sessionKey, ...) stores.
setAuthed(value) == IF value THEN "1" ELSE "0"

\* The section shown, when exactly one is.
Visible == {sec \in Sections : ~hidden[sec]}

(***************************************************************************)
(* NAVIGATION AND ROUTING                                                  *)
(***************************************************************************)
\* isAppScreen without the transfer screen.
isAppScreenTwo(id) == id \in {"dashboard", "transactions"}

isAppScreen(id) == id \in {"dashboard", "transactions", "transfer"}

updateActiveTab(tabId) ==
    [i \in TabIndex |->
        [active |-> tabButtons[i] = tabId,
         ariaSelected |-> BoolAttr(tabButtons[i] = tabId)]]

\* show(id) with aria-hidden set from sec === id.
shownAriaInverted(id, tabs0, announcements0) ==
    [hidden |-> [sec \in Sections |-> sec # id],
     ariaHidden |-> [sec \in Sections |-> BoolAttr(sec = id)],
     tabNavHidden |-> ~isAppScreen(id),
     tabs |-> IF isAppScreen(id) THEN updateActiveTab(id) ELSE tabs0,
     announcements |-> announcements0 + 1]

\* What show(id) leaves, from the tabs and announcements before the call.
shown(id, tabs0, announcements0) ==
    [hidden |-> [sec \in Sections |-> sec # id],
     ariaHidden |-> [sec \in Sections |-> BoolAttr(sec # id)],
     tabNavHidden |-> ~isAppScreen(id),
     tabs |-> IF isAppScreen(id) THEN updateActiveTab(id) ELSE tabs0,
     announcements |-> announcements0 + 1]

show(id) ==
    LET r == shown(id, tabs, announcements)
    IN  /\ hidden' = r.hidden
        /\ ariaHidden' = r.ariaHidden
        /\ tabNavHidden' = r.tabNavHidden
        /\ tabs' = r.tabs
        /\ announcements' = r.announcements

\* announcePageChange's timer: the announcement element is removed.
AnnouncementRemoved ==
    /\ UNCHANGED <<callVars, sinkVars, pc, focused>>
    /\ announcements > 0
    /\ announcements' = announcements - 1
    /\ notified' = <<>>
    /\ UNCHANGED <<storage, hidden, ariaHidden, tabNavHidden, tabs,
                   logoutHidden, loginForm, loginPending, transferForm,
                   transferPending>>

(***************************************************************************)
(* LOADING STATE                                                           *)
(***************************************************************************)
\* A showLoading that would leave the button enabled.
showLoadingBusyOnly(button) ==
    [button EXCEPT !.textHidden = TRUE, !.loaderHidden = FALSE,
                   !.ariaBusy = "true"]

showLoading(button) ==
    [button EXCEPT !.textHidden = TRUE, !.loaderHidden = FALSE,
                   !.disabled = TRUE, !.ariaBusy = "true"]

hideLoading(button) ==
    [button EXCEPT !.textHidden = FALSE, !.loaderHidden = TRUE,
                   !.disabled = FALSE, !.ariaBusy = "false"]

(***************************************************************************)
(* The document as it is parsed, before the script runs: the forms are     *)
(* empty and enabled, no validity marker is set, the logout button is      *)
(* hidden, the first source account is selected.                           *)
(***************************************************************************)
Button0 ==
    [disabled |-> FALSE, ariaBusy |-> NoValue,
     textHidden |-> FALSE, loaderHidden |-> TRUE]

LoginForm0 ==
    [cust |-> <<>>, pass |-> <<>>, custAria |-> NoValue,
     passAria |-> NoValue, status |-> "", btn |-> Button0,
     passType |-> "password", toggleLabel |-> NoValue]

TransferForm0 ==
    [to |-> <<>>, amount |-> <<>>, desc |-> <<>>, from |-> "001",
     toAria |-> NoValue, amountAria |-> NoValue, descAria |-> NoValue,
     status |-> "", btn |-> Button0]

Tabs0 ==
    {[i \in TabIndex |-> [active |-> i \in S, ariaSelected |-> BoolAttr(i \in S)]] :
        S \in {{}} \cup {{i} : i \in TabIndex}}

(***************************************************************************)
(* What the user types in the model of the whole page.                     *)
(***************************************************************************)
SampleTo == <<"0", "6", "2", "-", "0", "0", "0", " ",
              "1", "2", "3", "4", "5", "6", "7", "8">>

\* Customer ID and password, as typed.
TypedLogin ==
    {<<<<>>, <<"a", "b", "c">>>>,
     <<<<"A", "1">>, <<"a", "b", "c", "d">>>>}

\* Destination, amount, description and source account, as typed.
TypedTransfer ==
    {<<<<"0", "6", "2", "x">>, <<"1", "5", "0", "0", "0">>, <<>>, "002">>,
     <<SampleTo, <<"5", "0", ".", "0", "0">>, <<>>, "001">>,
     <<<<>>, <<"5", "0", ".", "0", "0">>, Rep("r", MaxDescLen + 1), "001">>}

(***************************************************************************)
(* INITIAL ROUTING: the page as the script leaves it when it has run, with *)
(* st in the storage and tabs0 the tab markers of the document.            *)
(***************************************************************************)
Booted(st, tabs0) ==
    LET r == shown(IF isAuthed(st) THEN "dashboard" ELSE "login", tabs0, 0)
    IN  [hidden |-> r.hidden,
         ariaHidden |-> r.ariaHidden,
         tabNavHidden |-> r.tabNavHidden,
         tabs |-> r.tabs,
         announcements |-> r.announcements,
         logoutHidden |-> ~isAuthed(st),
         notified |-> IF isAuthed(st)
                      THEN showToast("Welcome back!", "info", 2000)
                      ELSE <<>>]

NoCall == [fn |-> "none", args |-> <<>>]

\* No submit handler is between its await and its end.
NoHandler == [todo |-> <<>>, data |-> <<>>]

Init ==
    /\ storage \in StorageVals
    /\ \E tabs0 \in Tabs0 :
          LET b == Booted(storage, tabs0)
          IN  /\ hidden = b.hidden
              /\ ariaHidden = b.ariaHidden
              /\ tabNavHidden = b.tabNavHidden
              /\ tabs = b.tabs
              /\ announcements = b.announcements
              /\ logoutHidden = b.logoutHidden
              /\ notified = b.notified
    /\ loginForm = LoginForm0
    /\ loginPending = 0
    /\ transferForm = TransferForm0
    /\ transferPending = <<>>
    /\ call = NoCall
    /\ ret = <<>>
    /\ toasts = <<>>
    /\ toastCounter = 0
    /\ pc = NoHandler
    /\ focused = 0

\* The user reloads the page: the storage stays, the script runs again on
\* a fresh document and the timers of the old page are gone.
Reload ==
    /\ UNCHANGED <<callVars, sinkVars, pc>>
    /\ focused' = 0
    /\ UNCHANGED storage
    /\ \E tabs0 \in Tabs0 :
          LET b == Booted(storage, tabs0)
          IN  /\ hidden' = b.hidden
              /\ ariaHidden' = b.ariaHidden
              /\ tabNavHidden' = b.tabNavHidden
              /\ tabs' = b.tabs
              /\ announcements' = b.announcements
              /\ logoutHidden' = b.logoutHidden
              /\ notified' = b.notified
    /\ loginForm' = LoginForm0
    /\ loginPending' = 0
    /\ transferForm' = TransferForm0
    /\ transferPending' = <<>>

(***************************************************************************)
(* LOGIN HANDLING                                                          *)
(***************************************************************************)
\* A join that would keep the first error only.
JoinFirst(errors) == IF Len(errors) = 0 THEN "" ELSE errors[1]

\* errors.join('. ')
RECURSIVE Join(_)
Join(errors) ==
    IF Len(errors) = 0 THEN ""
    ELSE IF Len(errors) = 1 THEN errors[1]
    ELSE errors[1] \o ". " \o Join(Tail(errors))

\* The user edits a field of the login form.
TypeLogin ==
    /\ UNCHANGED <<callVars, sinkVars, pc>>
    /\ focused' = 0
    /\ ~hidden["login"]
    /\ \E typed \in TypedLogin :
          /\ typed # <<loginForm.cust, loginForm.pass>>
          /\ loginForm' = [loginForm EXCEPT !.cust = typed[1], !.pass = typed[2]]
    /\ notified' = <<>>
    /\ UNCHANGED <<storage, navVars, logoutHidden, loginPending,
                   transferForm, transferPending>>

\* A submit handler that would set the session flag before its await.
LoginSubmitEager ==
    /\ UNCHANGED <<callVars, sinkVars, pc>>
    /\ focused' = 0
    /\ ~hidden["login"]
    /\ ~loginForm.btn.disabled
    /\ LET validation == validateLogin(loginForm.cust, loginForm.pass)
           marked == [loginForm EXCEPT !.custAria = validation.custAria,
                                       !.passAria = validation.passAria]
       IN  IF ~validation.isValid
           THEN /\ loginForm' =
                     [marked EXCEPT !.status = Join(validation.errors) \o "."]
                /\ notified' = showToast(validation.errors[1], "error", 4000)
                /\ UNCHANGED <<loginPending, storage>>
           ELSE /\ loginForm' =
                     [marked EXCEPT !.btn = showLoading(@),
                                    !.status = "Authenticating..."]
                /\ loginPending' = loginPending + 1
                /\ storage' = setAuthed(TRUE)
                /\ notified' = <<>>
    /\ UNCHANGED <<navVars, logoutHidden, transferForm, transferPending>>

\* The submit handler of the login form, up to its return or its await.
LoginSubmit ==
    /\ UNCHANGED <<callVars, sinkVars, pc>>
    /\ focused' = 0
    /\ ~hidden["login"]
    /\ ~loginForm.btn.disabled
    /\ LET validation == validateLogin(loginForm.cust, loginForm.pass)
           marked == [loginForm EXCEPT !.custAria = validation.custAria,
                                       !.passAria = validation.passAria]
       IN  IF ~validation.isValid
           THEN /\ loginForm' =
                     [marked EXCEPT !.status = Join(validation.errors) \o "."]
                /\ notified' = showToast(validation.errors[1], "error", 4000)
                /\ UNCHANGED loginPending
           ELSE /\ loginForm' =
                     [marked EXCEPT !.btn = showLoading(@),
                                    !.status = "Authenticating..."]
                /\ loginPending' = loginPending + 1
                /\ notified' = <<>>
    /\ UNCHANGED <<storage, navVars, logoutHidden, transferForm,
                   transferPending>>

\* The rest of the submit handler, when simulateAsync(1000) has resolved.
LoginDone ==
    /\ UNCHANGED <<callVars, sinkVars, pc, focused>>
    /\ loginPending > 0
    /\ announcements < MaxAnnounce
    /\ loginPending' = loginPending - 1
    /\ storage' = setAuthed(TRUE)
    /\ logoutHidden' = FALSE
    /\ loginForm' = [loginForm EXCEPT !.status = "", !.btn = hideLoading(@)]
    /\ notified' = showToast("Successfully logged in!", "success", 4000)
    /\ show("dashboard")
    /\ UNCHANGED <<transferForm, transferPending>>

\* The blur handler of a field of the login form.
LoginBlur ==
    /\ UNCHANGED <<callVars, sinkVars, pc>>
    /\ focused' = 0
    /\ ~hidden["login"]
    /\ \E value \in {loginForm.cust, loginForm.pass} :
          IF Trim(value) # <<>>
          THEN LET validation == validateLogin(loginForm.cust, loginForm.pass)
               IN  loginForm' =
                       [loginForm EXCEPT !.custAria = validation.custAria,
                                         !.passAria = validation.passAria]
          ELSE UNCHANGED loginForm
    /\ notified' = <<>>
    /\ UNCHANGED <<storage, navVars, logoutHidden, loginPending,
                   transferForm, transferPending>>

(***************************************************************************)
(* PASSWORD VISIBILITY TOGGLE                                              *)
(***************************************************************************)
\* The click handler of #togglePassword.
TogglePassword ==
    /\ UNCHANGED <<callVars, sinkVars, pc>>
    /\ focused' = 0
    /\ ~hidden["login"]
    /\ LET type == IF loginForm.passType = "password" THEN "text"
                   ELSE "password"
           label == IF type = "password" THEN "Show password"
                    ELSE "Hide password"
       IN  loginForm' = [loginForm EXCEPT !.passType = type,
                                          !.toggleLabel = label]
    /\ notified' = <<>>
    /\ UNCHANGED <<storage, navVars, logoutHidden, loginPending,
                   transferForm, transferPending>>

(***************************************************************************)
(* LOGOUT HANDLING                                                         *)
(***************************************************************************)
\* A logout that would drop the transfer waiting in simulateAsync.
LogoutCancelling ==
    /\ UNCHANGED <<callVars, sinkVars, pc>>
    /\ focused' = 0
    /\ ~logoutHidden
    /\ announcements < MaxAnnounce
    /\ storage' = setAuthed(FALSE)
    /\ logoutHidden' = TRUE
    /\ show("login")
    /\ loginForm' = [loginForm EXCEPT !.cust = LoginForm0.cust,
                                      !.pass = LoginForm0.pass,
                                      !.status = "",
                                      !.custAria = "false",
                                      !.passAria = "false"]
    /\ notified' = showToast("Successfully logged out", "info", 4000)
    /\ transferPending' = <<>>
    /\ UNCHANGED <<loginPending, transferForm>>

Logout ==
    /\ UNCHANGED <<callVars, sinkVars, pc>>
    /\ focused' = 0
    /\ ~logoutHidden
    /\ announcements < MaxAnnounce
    /\ storage' = setAuthed(FALSE)
    /\ logoutHidden' = TRUE
    /\ show("login")
    /\ loginForm' = [loginForm EXCEPT !.cust = LoginForm0.cust,
                                      !.pass = LoginForm0.pass,
                                      !.status = "",
                                      !.custAria = "false",
                                      !.passAria = "false"]
    /\ notified' = showToast("Successfully logged out", "info", 4000)
    /\ UNCHANGED <<loginPending, transferForm, transferPending>>

(***************************************************************************)
(* TAB NAVIGATION                                                          *)
(***************************************************************************)
TabClick(i) ==
    /\ UNCHANGED <<callVars, sinkVars, pc>>
    /\ announcements < MaxAnnounce
    /\ show(tabButtons[i])
    /\ notified' = <<>>
    /\ UNCHANGED <<storage, logoutHidden, loginForm, loginPending,
                   transferForm, transferPending>>

\* A click on a tab button, which the user can make while the tabs show:
\* with the mouse, which gives the button the focus in some browsers and
\* takes the focus from the tabs in others, or with Enter or Space on the
\* button that has the focus.
TabClicked ==
    \E i \in TabIndex :
        /\ ~tabNavHidden
        /\ TabClick(i)
        /\ focused' \in {0, i}

\* The user moves the focus to a tab button without activating it.
FocusTab ==
    \E i \in TabIndex :
        /\ ~tabNavHidden
        /\ focused # i
        /\ focused' = i
        /\ UNCHANGED <<storage, navVars, logoutHidden, loginForm, loginPending,
                       transferForm, transferPending, notified, callVars,
                       sinkVars, pc>>

Keys == {"ArrowRight", "ArrowLeft", "Enter"}

\* A newIndex that would stop at the last and at the first tab.
newIndexOfNoWrap(index, key) ==
    IF key = "ArrowRight"
    THEN (IF index + 1 < Len(tabButtons) THEN index + 1 ELSE index)
    ELSE IF key = "ArrowLeft"
    THEN (IF index > 0 THEN index - 1 ELSE index)
    ELSE index

\* newIndex of the keydown handler of the tab at index (counted from 0).
newIndexOf(index, key) ==
    IF key = "ArrowRight" THEN (index + 1) % Len(tabButtons)
    ELSE IF key = "ArrowLeft"
    THEN (index - 1 + Len(tabButtons)) % Len(tabButtons)
    ELSE index

\* The keydown handler of the tab button that has the focus, for key.
TabKey(key) ==
    /\ ~tabNavHidden
    /\ focused \in TabIndex
    /\ LET index == focused - 1
           newIndex == newIndexOf(index, key)
       IN  IF newIndex # index
           THEN /\ focused' = newIndex + 1
                /\ TabClick(newIndex + 1)
           ELSE /\ notified' = <<>>
                /\ UNCHANGED <<callVars, sinkVars, pc, focused>>
                /\ UNCHANGED <<storage, navVars, logoutHidden, loginForm,
                               loginPending, transferForm, transferPending>>

\* A key pressed on the tab button that has the focus.
TabKeydown == \E key \in Keys : TabKey(key)

(***************************************************************************)
(* TRANSFER FORM                                                           *)
(***************************************************************************)
\* value.replace(/[^\d\s-]/g, '')
RECURSIVE KeepBSBChars(_)
KeepBSBChars(s) ==
    IF s = <<>> THEN <<>>
    ELSE (IF IsDigit(Head(s)) \/ IsSpace(Head(s)) \/ Head(s) = "-"
          THEN <<Head(s)>> ELSE <<>>) \o KeepBSBChars(Tail(s))

\* The input handler of #to: what it leaves in the field.
formatTo(typed) ==
    LET value == KeepBSBChars(typed)
        fourth == IF Len(value) >= 4 THEN value[4] ELSE NoValue
    IN  IF Len(value) >= 3 /\ fourth # "-"
           /\ ~(\E i \in 1..Len(value) : value[i] = "-")
        THEN SubSeq(value, 1, 3) \o <<"-">> \o SubSeq(value, 4, Len(value))
        ELSE value

\* The input handler of #amount: what it leaves in the field.
formatAmount(typed) ==
    LET num == ParseFloat(typed)
    IN  IF num.kind = "number" /\ num.v < 0 THEN <<>> ELSE typed

\* The user edits the transfer form; the input handlers run.
TypeTransfer ==
    /\ UNCHANGED <<callVars, sinkVars, pc>>
    /\ focused' = 0
    /\ ~hidden["transfer"]
    /\ \E typed \in TypedTransfer :
          LET edited == [transferForm EXCEPT !.to = formatTo(typed[1]),
                                             !.amount = formatAmount(typed[2]),
                                             !.desc = typed[3],
                                             !.from = typed[4]]
          IN  /\ edited # transferForm
              /\ transferForm' = edited
    /\ notified' = <<>>
    /\ UNCHANGED <<storage, navVars, logoutHidden, loginForm, loginPending,
                   transferPending>>

\* Markers set on the destination and the amount only.
MarkedWithoutDesc(form, validation) ==
    [form EXCEPT !.toAria = validation.toAria,
                 !.amountAria = validation.amountAria]

\* Markers set on a form whose destination would be cleared with them.
MarkedCleared(form, validation) ==
    [form EXCEPT !.toAria = validation.toAria,
                 !.amountAria = validation.amountAria,
                 !.descAria = validation.descAria,
                 !.to = <<>>]

\* The transfer form with the validity markers validateTransfer sets.
Marked(form, validation) ==
    [form EXCEPT !.toAria = validation.toAria,
                 !.amountAria = validation.amountAria,
                 !.descAria = validation.descAria]

\* The submit handler of the transfer form, up to its return or its await.
TransferSubmit ==
    /\ UNCHANGED <<callVars, sinkVars, pc>>
    /\ focused' = 0
    /\ ~hidden["transfer"]
    /\ ~transferForm.btn.disabled
    /\ LET validation == validateTransfer(transferForm.to, transferForm.amount,
                                          transferForm.desc, transferForm.from)
           marked == Marked(transferForm, validation)
       IN  IF ~validation.isValid
           THEN /\ transferForm' = [marked EXCEPT !.status = validation.errors[1]]
                /\ notified' = showToast(validation.errors[1], "error", 4000)
                /\ UNCHANGED transferPending
           ELSE /\ transferForm' =
                     [marked EXCEPT !.btn = showLoading(@),
                                    !.status = "Processing transfer..."]
                /\ transferPending' = Append(transferPending, validation.data)
                /\ notified' = <<>>
    /\ UNCHANGED <<storage, navVars, logoutHidden, loginForm, loginPending>>

\* The rest of the submit handler, when simulateAsync(1500) has resolved.
TransferDone ==
    /\ UNCHANGED <<callVars, sinkVars, pc, focused>>
    /\ transferPending # <<>>
    /\ LET data == Head(transferPending)
       IN  notified' = showToast("Successfully transferred $"
                                     \o ToFixed2(data.amount.v) \o " to "
                                     \o Str(data.to),
                                 "success", 5000)
    /\ transferPending' = Tail(transferPending)
    /\ transferForm' = [transferForm EXCEPT
                            !.status = "", !.btn = hideLoading(@),
                            !.to = TransferForm0.to,
                            !.amount = TransferForm0.amount,
                            !.desc = TransferForm0.desc,
                            !.from = TransferForm0.from,
                            !.toAria = "false", !.amountAria = "false",
                            !.descAria = "false"]
    /\ UNCHANGED <<storage, navVars, logoutHidden, loginForm, loginPending>>

\* The blur handler of the field named input of the transfer form.
TransferBlur ==
    /\ UNCHANGED <<callVars, sinkVars, pc>>
    /\ focused' = 0
    /\ ~hidden["transfer"]
    /\ \E input \in {"to", "amount", "desc"} :
          IF Trim(transferForm[input]) # <<>> \/ input = "amount"
          THEN transferForm' =
                   Marked(transferForm,
                          validateTransfer(transferForm.to, transferForm.amount,
                                           transferForm.desc, transferForm.from))
          ELSE UNCHANGED transferForm
    /\ notified' = <<>>
    /\ UNCHANGED <<storage, navVars, logoutHidden, loginForm, loginPending,
                   transferPending>>

(***************************************************************************)
(* The page.                                                               *)
(***************************************************************************)
Next ==
    \/ Reload
    \/ AnnouncementRemoved
    \/ TypeLogin
    \/ LoginSubmit
    \/ LoginDone
    \/ LoginBlur
    \/ TogglePassword
    \/ Logout
    \/ TabClicked
    \/ FocusTab
    \/ TabKeydown
    \/ TypeTransfer
    \/ TransferSubmit
    \/ TransferDone
    \/ TransferBlur

Spec == Init /\ [][Next]_vars

(***************************************************************************)
(* THE PAGE WHILE IT STAYS LOADED: the user does not reload, and every     *)
(* timer the page has set fires: the promise of simulateAsync resolves     *)
(* and the handler awaiting it resumes, and the timer that removes an      *)
(* announcement fires.                                                     *)
(***************************************************************************)
NextLoaded ==
    \/ AnnouncementRemoved
    \/ TypeLogin
    \/ LoginSubmit
    \/ LoginDone
    \/ LoginBlur
    \/ TogglePassword
    \/ Logout
    \/ TabClicked
    \/ FocusTab
    \/ TabKeydown
    \/ TypeTransfer
    \/ TransferSubmit
    \/ TransferDone
    \/ TransferBlur

SpecLive ==
    /\ Init
    /\ [][NextLoaded]_vars
    /\ WF_vars(AnnouncementRemoved)
    /\ WF_vars(LoginDone)
    /\ WF_vars(TransferDone)

(***************************************************************************)
(* THE VALIDATORS ON THEIR OWN: a call of validateLogin or                 *)
(* validateTransfer on arguments drawn from the sets below, on a page that *)
(* has just loaded.                                                        *)
(***************************************************************************)
RECURSIVE TextsUpTo(_, _)
TextsUpTo(alphabet, n) ==
    IF n = 0 THEN {<<>>}
    ELSE LET shorter == TextsUpTo(alphabet, n - 1)
         IN  shorter \cup {<<c>> \o t : c \in alphabet, t \in shorter}

CustInputs == TextsUpTo({"A", " "}, MaxCustLen)

PassInputs == TextsUpTo({"a", " ", "\t"}, MaxPassLen)

\* Destinations made of a first and a second digit group, a separator
\* between them, a gap, account digits, and white space around.
ToInputs ==
    {<<>>, <<" ">>, <<"-">>} \cup
    {lead \o Rep("0", g1) \o hyphen \o Rep("6", g2) \o gap
          \o Rep("7", n) \o trail :
        lead \in {<<>>, <<" ">>},
        g1 \in 2..MaxGroupDigits,
        hyphen \in {<<>>, <<"-">>, <<" ">>},
        g2 \in 2..MaxGroupDigits,
        gap \in {<<>>, <<" ">>, <<" ", "\t">>, <<"x">>},
        n \in 5..MaxAccountDigits,
        trail \in {<<>>, <<" ">>, <<"x">>}}

AmountInputs ==
    {<<>>, <<"x">>, <<"0">>, <<"-", "5">>, <<"0", ".", "0", "1">>,
     <<"5", "0", ".", "0", "0">>, <<" ", "1", "2", "x">>,
     <<"2", "4", "5", "0", ".", "3", "5">>,
     <<"2", "4", "5", "0", ".", "3", "6">>,
     <<"8", "1", "2", "0">>, <<"8", "1", "2", "0", ".", "0", "1">>,
     <<"1", "0", "0", "0", "0">>, <<"1", "0", "0", "0", "0", ".", "0", "1">>,
     <<"1", "5", "0", "0", "0">>}

DescInputs ==
    {<<>>, <<"r", "e", "n", "t">>, Rep("r", MaxDescLen),
     Rep("r", MaxDescLen + 1), Rep("r", MaxDescLen) \o <<" ">>}

FromInputs == {"001", "002", "003", "constructor"}

LoginCalls ==
    {[fn |-> "validateLogin", args |-> <<c, p>>] :
        c \in CustInputs, p \in PassInputs}

TransferCalls ==
    {[fn |-> "validateTransfer", args |-> <<t, a, d, f>>] :
        t \in ToInputs, a \in {<<"5", "0", ".", "0", "0">>},
        d \in {<<>>}, f \in {"001"}}
    \cup
    {[fn |-> "validateTransfer", args |-> <<t, a, d, f>>] :
        t \in {<<>>, <<"0", "6", "2", "x">>, SampleTo}, a \in AmountInputs,
        d \in DescInputs, f \in FromInputs}

InitValidate ==
    /\ storage = NoValue
    /\ \E tabs0 \in {updateActiveTab("dashboard")} :
          LET b == Booted(storage, tabs0)
          IN  /\ hidden = b.hidden
              /\ ariaHidden = b.ariaHidden
              /\ tabNavHidden = b.tabNavHidden
              /\ tabs = b.tabs
              /\ announcements = b.announcements
              /\ logoutHidden = b.logoutHidden
              /\ notified = b.notified
    /\ loginForm = LoginForm0
    /\ loginPending = 0
    /\ transferForm = TransferForm0
    /\ transferPending = <<>>
    /\ call \in LoginCalls \cup TransferCalls
    /\ ret = <<>>
    /\ toasts = <<>>
    /\ toastCounter = 0
    /\ pc = NoHandler
    /\ focused = 0

CallValidateLogin ==
    /\ call.fn = "validateLogin"
    /\ ret = <<>>
    /\ ret' = <<validateLogin(call.args[1], call.args[2])>>
    /\ UNCHANGED <<call, pageVars, sinkVars, pc>>

CallValidateTransfer ==
    /\ call.fn = "validateTransfer"
    /\ ret = <<>>
    /\ ret' = <<validateTransfer(call.args[1], call.args[2],
                                 call.args[3], call.args[4])>>
    /\ UNCHANGED <<call, pageVars, sinkVars, pc>>

NextValidate ==
    \/ CallValidateLogin
    \/ CallValidateTransfer

SpecValidate == InitValidate /\ [][NextValidate]_vars

(***************************************************************************)
(* THE SUBMIT HANDLERS STATEMENT BY STATEMENT.  In Spec the part of a      *)
(* submit handler that follows its await is one step (LoginDone,           *)
(* TransferDone); here it runs one statement at a time, in the order of    *)
(* the source, and no other handler runs before it has ended.  The page    *)
(* has loaded without a session.                                           *)
(***************************************************************************)
\* A continuation that would re-enable the control before it clears the
\* status.
LoginContinuationEnableFirst ==
    <<"setAuthed(true)", "logoutBtn.hidden = false",
      "hideLoading(loginForm .btn)", "loginStatus.textContent = ''",
      "showToast('Successfully logged in!')", "show('dashboard')">>

\* Statements of the login handler after await simulateAsync(1000).
LoginContinuation ==
    <<"setAuthed(true)", "logoutBtn.hidden = false",
      "loginStatus.textContent = ''", "hideLoading(loginForm .btn)",
      "showToast('Successfully logged in!')", "show('dashboard')">>

\* Statements of the transfer handler after await simulateAsync(1500).
TransferContinuation ==
    <<"transferStatus.textContent = ''", "hideLoading(transferForm .btn)",
      "showToast('Successfully transferred')", "transferForm.reset()",
      "toInput.aria-invalid = false", "amountInput.aria-invalid = false",
      "descInput.aria-invalid = false">>

Idle == pc.todo = <<>>

\* simulateAsync(1000) has resolved: the login handler is resumed.
LoginResumed ==
    /\ Idle
    /\ loginPending > 0
    /\ announcements < MaxAnnounce
    /\ loginPending' = loginPending - 1
    /\ pc' = [todo |-> LoginContinuation, data |-> <<>>]
    /\ notified' = <<>>
    /\ UNCHANGED <<storage, navVars, logoutHidden, loginForm, transferForm,
                   transferPending, callVars, sinkVars,
                   focused>>

\* The resumed login handler runs its next statement.
LoginStep ==
    /\ ~Idle
    /\ Head(pc.todo) \in {LoginContinuation[i] : i \in 1..Len(LoginContinuation)}
    /\ pc' = [pc EXCEPT !.todo = Tail(@)]
    /\ LET stmt == Head(pc.todo)
       IN  CASE stmt = "setAuthed(true)" ->
                    /\ storage' = setAuthed(TRUE)
                    /\ UNCHANGED <<navVars, logoutHidden, loginForm, notified>>
             [] stmt = "logoutBtn.hidden = false" ->
                    /\ logoutHidden' = FALSE
                    /\ UNCHANGED <<storage, navVars, loginForm, notified>>
             [] stmt = "loginStatus.textContent = ''" ->
                    /\ loginForm' = [loginForm EXCEPT !.status = ""]
                    /\ UNCHANGED <<storage, navVars, logoutHidden, notified>>
             [] stmt = "hideLoading(loginForm .btn)" ->
                    /\ loginForm' = [loginForm EXCEPT !.btn = hideLoading(@)]
                    /\ UNCHANGED <<storage, navVars, logoutHidden, notified>>
             [] stmt = "showToast('Successfully logged in!')" ->
                    /\ notified' =
                           notified \o showToast("Successfully logged in!",
                                                 "success", 4000)
                    /\ UNCHANGED <<storage, navVars, logoutHidden, loginForm>>
             [] stmt = "show('dashboard')" ->
                    /\ show("dashboard")
                    /\ UNCHANGED <<storage, logoutHidden, loginForm, notified>>
    /\ UNCHANGED <<loginPending, transferForm, transferPending, callVars,
                   sinkVars,
                   focused>>

\* simulateAsync(1500) has resolved: the transfer handler is resumed.
TransferResumed ==
    /\ Idle
    /\ transferPending # <<>>
    /\ transferPending' = Tail(transferPending)
    /\ pc' = [todo |-> TransferContinuation, data |-> <<Head(transferPending)>>]
    /\ notified' = <<>>
    /\ UNCHANGED <<storage, navVars, logoutHidden, loginForm, loginPending,
                   transferForm, callVars, sinkVars,
                   focused>>

\* The resumed transfer handler runs its next statement.
TransferStep ==
    /\ ~Idle
    /\ Head(pc.todo) \in
           {TransferContinuation[i] : i \in 1..Len(TransferContinuation)}
    /\ pc' = [pc EXCEPT !.todo = Tail(@)]
    /\ LET stmt == Head(pc.todo)
           data == pc.data[1]
       IN  CASE stmt = "transferStatus.textContent = ''" ->
                    /\ transferForm' = [transferForm EXCEPT !.status = ""]
                    /\ UNCHANGED notified
             [] stmt = "hideLoading(transferForm .btn)" ->
                    /\ transferForm' = [transferForm EXCEPT !.btn = hideLoading(@)]
                    /\ UNCHANGED notified
             [] stmt = "showToast('Successfully transferred')" ->
                    /\ notified' =
                           notified \o showToast("Successfully transferred $"
                                                     \o ToFixed2(data.amount.v)
                                                     \o " to " \o Str(data.to),
                                                 "success", 5000)
                    /\ UNCHANGED transferForm
             [] stmt = "transferForm.reset()" ->
                    /\ transferForm' =
                           [transferForm EXCEPT !.to = TransferForm0.to,
                                                !.amount = TransferForm0.amount,
                                                !.desc = TransferForm0.desc,
                                                !.from = TransferForm0.from]
                    /\ UNCHANGED notified
             [] stmt = "toInput.aria-invalid = false" ->
                    /\ transferForm' = [transferForm EXCEPT !.toAria = "false"]
                    /\ UNCHANGED notified
             [] stmt = "amountInput.aria-invalid = false" ->
                    /\ transferForm' = [transferForm EXCEPT !.amountAria = "false"]
                    /\ UNCHANGED notified
             [] stmt = "descInput.aria-invalid = false" ->
                    /\ transferForm' = [transferForm EXCEPT !.descAria = "false"]
                    /\ UNCHANGED notified
    /\ UNCHANGED <<storage, navVars, logoutHidden, loginForm, loginPending,
                   transferPending, callVars, sinkVars,
                   focused>>

InitSteps ==
    /\ Init
    /\ storage = NoValue
    /\ tabs = updateActiveTab("dashboard")

NextSteps ==
    \/ Idle /\ AnnouncementRemoved
    \/ Idle /\ TypeLogin
    \/ Idle /\ LoginSubmit
    \/ LoginResumed
    \/ LoginStep
    \/ Idle /\ Logout
    \/ Idle /\ TabClicked
    \/ Idle /\ FocusTab
    \/ Idle /\ TabKeydown
    \/ Idle /\ TypeTransfer
    \/ Idle /\ TransferSubmit
    \/ Idle /\ TransferBlur
    \/ TransferResumed
    \/ TransferStep

SpecSteps == InitSteps /\ [][NextSteps]_vars

(***************************************************************************)
(* THE TOAST CONTAINER ON ITS OWN: showToast is called with notices the    *)
(* page asks for, on a page that has just loaded, and the timers showToast *)
(* sets run.  Time is counted in ticks of 100 ms.  A timer fires when its  *)
(* delay has passed, or later: left is what remains of the delay of the    *)
(* timer the toast waits for, elapsed the time since the toast was made    *)
(* (counted up to the delay of both timers).                               *)
(***************************************************************************)
Ticks(ms) == ms \div 100

Chars(n) ==
    CASE n = "welcome" ->
             <<"W", "e", "l", "c", "o", "m", "e", " ", "b", "a", "c", "k", "!">>
      [] n = "logout" ->
             <<"S", "u", "c", "c", "e", "s", "s", "f", "u", "l", "l", "y", " ",
               "l", "o", "g", "g", "e", "d", " ", "o", "u", "t">>

\* Calls of showToast the page makes: at startup with a session, at logout.
ToastCalls ==
    {[message |-> Chars("welcome"), type |-> "info", duration |-> 2000],
     [message |-> Chars("logout"), type |-> "info", duration |-> 4000]}

ToastIds == 0..(MaxToastId - 1)

Present(id) == \E i \in 1..Len(toasts) : toasts[i].id = id

ToastOf(id) == toasts[CHOOSE i \in 1..Len(toasts) : toasts[i].id = id]

ShowToast ==
    /\ Len(toasts) < MaxToasts
    /\ toastCounter < MaxToastId
    /\ \E c \in ToastCalls :
          toasts' = Append(toasts,
                           [id |-> toastCounter,
                            type |-> c.type,
                            message |-> sanitizeInput(c.message),
                            duration |-> c.duration,
                            animation |-> "slideIn",
                            left |-> Ticks(c.duration),
                            elapsed |-> 0])
    /\ toastCounter' = toastCounter + 1
    /\ UNCHANGED <<pageVars, callVars, pc>>

\* 100 ms pass.
Tick ==
    /\ toasts # <<>>
    /\ toasts' =
           [i \in 1..Len(toasts) |->
               LET t == toasts[i]
                   whole == Ticks(t.duration) + Ticks(300)
               IN  [t EXCEPT !.left = IF @ > 0 THEN @ - 1 ELSE 0,
                             !.elapsed = IF @ < whole THEN @ + 1 ELSE whole]]
    /\ UNCHANGED <<toastCounter, pageVars, callVars, pc>>

\* A removal timer that would be set to no delay at all.
SlideOutAtOnce(id) ==
    /\ Present(id)
    /\ ToastOf(id).animation = "slideIn"
    /\ ToastOf(id).left = 0
    /\ toasts' = [i \in 1..Len(toasts) |->
                     IF toasts[i].id = id
                     THEN [toasts[i] EXCEPT !.animation = "slideOut",
                                            !.left = 0]
                     ELSE toasts[i]]
    /\ UNCHANGED <<toastCounter, pageVars, callVars, pc>>

\* The timer set for duration fires: the toast slides out, and the timer
\* of its removal is set.
SlideOut(id) ==
    /\ Present(id)
    /\ ToastOf(id).animation = "slideIn"
    /\ ToastOf(id).left = 0
    /\ toasts' = [i \in 1..Len(toasts) |->
                     IF toasts[i].id = id
                     THEN [toasts[i] EXCEPT !.animation = "slideOut",
                                            !.left = Ticks(300)]
                     ELSE toasts[i]]
    /\ UNCHANGED <<toastCounter, pageVars, callVars, pc>>

\* The timer set for 300 ms fires: the toast leaves the container.
RemoveToast(id) ==
    /\ Present(id)
    /\ ToastOf(id).animation = "slideOut"
    /\ ToastOf(id).left = 0
    /\ toasts' = SelectSeq(toasts, LAMBDA t : t.id # id)
    /\ UNCHANGED <<toastCounter, pageVars, callVars, pc>>

TimerFires == \E id \in ToastIds : SlideOut(id) \/ RemoveToast(id)

\* The page loaded without a session: nothing is in the container.
InitToast ==
    /\ Init
    /\ storage = NoValue
    /\ tabs = updateActiveTab("dashboard")

NextToast ==
    \/ ShowToast
    \/ Tick
    \/ TimerFires

\* Time passes and every timer that is due fires.
SpecToast ==
    /\ InitToast
    /\ [][NextToast]_vars
    /\ WF_vars(Tick)
    /\ \A id \in ToastIds : WF_vars(SlideOut(id)) /\ WF_vars(RemoveToast(id))

(***************************************************************************)
(* PROPERTIES OF THE SCREEN ROUTER AND THE SESSION FLAG                    *)
(***************************************************************************)
AppScreens == {"dashboard", "transactions", "transfer"}

\* C1: exactly one screen is visible in every state, each screen's
\* aria-hidden attribute is its hidden property, and the visible screen is
\* the one last passed to show: the clicked tab's screen after a tab click,
\* dashboard after a completed login, login after a logout, the routed
\* screen after a load.  show("dashboard") on a page that already shows the
\* dashboard leaves the visible screens and the tab navigation as they are.
C1_OneScreenVisible ==
    /\ [](/\ Cardinality(Visible) = 1
          /\ \A sec \in Sections : ariaHidden[sec] = BoolAttr(hidden[sec]))
    /\ [][\A i \in TabIndex : TabClick(i) => Visible' = {tabButtons[i]}]_vars
    /\ [][LoginDone => Visible' = {"dashboard"}]_vars
    /\ [][Logout => Visible' = {"login"}]_vars
    /\ [][(TabClick(1) /\ Visible = {"dashboard"})
            => (hidden' = hidden /\ ariaHidden' = ariaHidden
                /\ tabNavHidden' = tabNavHidden /\ ~tabNavHidden')]_vars

\* A tab click has brought the page from another screen to transactions.
C1_Witness ==
    /\ Visible = {"transactions"}
    /\ ariaHidden["transactions"] = "false"
    /\ ariaHidden["dashboard"] = "true"
    /\ storage = "1"

\* C2: the tab navigation is visible exactly when the visible screen is
\* dashboard, transactions or transfer, and then the tab of that screen,
\* and no other tab, is marked active and selected.
C2_TabNavFollowsScreen ==
    \A sec \in Sections :
        ~hidden[sec] =>
            /\ tabNavHidden = (sec \notin AppScreens)
            /\ sec \in AppScreens =>
                   \A i \in TabIndex :
                       /\ tabs[i].active = (tabButtons[i] = sec)
                       /\ tabs[i].ariaSelected =
                              (IF tabButtons[i] = sec THEN "true" ELSE "false")

\* The transfer screen is shown after another app screen, with its tab.
C2_Witness ==
    /\ ~hidden["transfer"]
    /\ ~tabNavHidden
    /\ tabs[3].active
    /\ ~tabs[1].active
    /\ transferForm.to = SampleTo

\* C3: after the login handler's setAuthed(true) isAuthed() is true, after
\* the logout handler's setAuthed(false) it is false, and it is false
\* whenever the storage holds nothing or anything but "1".
C3_SessionRoundTrip ==
    /\ [][LoginDone => isAuthed(storage')]_vars
    /\ [][Logout => ~isAuthed(storage')]_vars
    /\ [](storage \in (StorageVals \cup {"0"}) \ {"1"} => ~isAuthed(storage))
    /\ [](storage = "1" => isAuthed(storage))

\* The login handler has stored the flag and shown the dashboard.
C3_Witness ==
    /\ storage = "1"
    /\ notified = showToast("Successfully logged in!", "success", 4000)
    /\ ~logoutHidden

\* C4: when the page loads, the first time or again, it shows dashboard if
\* the storage holds exactly "1" and login for anything else; so a load
\* after a completed login shows dashboard and one after a logout, login.
Routed == Visible = {IF storage = "1" THEN "dashboard" ELSE "login"}

C4_StartupRouting ==
    /\ Visible = {IF storage = "1" THEN "dashboard" ELSE "login"}
    /\ [][Reload => Routed']_vars
    /\ [][LoginDone => storage' = "1"]_vars
    /\ [][Logout => storage' = "0"]_vars

\* The page has loaded on a malformed stored value and shows login.
C4_Witness ==
    /\ storage = "true"
    /\ Visible = {"login"}
    /\ tabNavHidden
    /\ logoutHidden

(***************************************************************************)
(* PROPERTIES OF THE VALIDATORS                                            *)
(***************************************************************************)
Contains(errors, message) == \E i \in 1..Len(errors) : errors[i] = message

Blank(s) == \A i \in 1..Len(s) : s[i] \in {" ", "\t"}

\* The text between the first and the last character that is not white
\* space: the text "after trimming" of the properties.
Core(s) ==
    IF Blank(s) THEN <<>>
    ELSE LET solid == {i \in 1..Len(s) : s[i] \notin {" ", "\t"}}
             first == CHOOSE i \in solid : \A j \in solid : i <= j
             last == CHOOSE i \in solid : \A j \in solid : j <= i
         IN  SubSeq(s, first, last)

\* Exactly 3 digits, an optional hyphen, exactly 3 digits, optional white
\* space, 6 to 9 digits.
WellFormedDestination(t) ==
    \E hy \in {0, 1}, ws \in 0..Len(t), n \in 6..9 :
        /\ Len(t) = 6 + hy + ws + n
        /\ \A i \in 1..Len(t) :
              IF hy = 1 /\ i = 4 THEN t[i] = "-"
              ELSE IF i > 6 + hy /\ i <= 6 + hy + ws THEN t[i] \in {" ", "\t"}
              ELSE t[i] \in {"0", "1", "2", "3", "4", "5", "6", "7", "8", "9"}

LoginReturned == call.fn = "validateLogin" /\ ret # <<>>

TransferReturned == call.fn = "validateTransfer" /\ ret # <<>>

\* C5: when the customer ID or the password is empty after trimming,
\* validateLogin returns isValid = false and its errors hold the
\* required-field message of each empty field, both when both are empty.
C5_RequiredFields ==
    LoginReturned =>
        LET cust == call.args[1]
            pass == call.args[2]
        IN  (Blank(cust) \/ Blank(pass)) =>
                /\ ~ret[1].isValid
                /\ Blank(cust) => Contains(ret[1].errors, ErrCustRequired)
                /\ Blank(pass) => Contains(ret[1].errors, ErrPassRequired)

\* Both fields hold only white space and both messages are returned.
C5_Witness ==
    /\ LoginReturned
    /\ call.args = <<<<" ">>, <<" ", "\t">>>>
    /\ ret[1].errors = <<ErrCustRequired, ErrPassRequired>>

\* C6 as stated: a password of 1 to 3 characters gets the minimum-length
\* error; one of 4 or more with a customer ID that is not empty after
\* trimming is valid, without errors.
C6_AsStated ==
    LoginReturned =>
        LET cust == call.args[1]
            pass == call.args[2]
        IN  /\ Len(pass) \in 1..3 => Contains(ret[1].errors, ErrPassShort)
            /\ (Len(pass) >= 4 /\ ~Blank(cust)) =>
                   (ret[1].isValid /\ ret[1].errors = <<>>)

\* C6: a password of 1 to 3 characters after trimming gets the
\* minimum-length error; one of 4 or more characters after trimming with a
\* customer ID that is not empty after trimming is valid, without errors.
C6_TrimmedPasswordLength ==
    LoginReturned =>
        LET cust == call.args[1]
            pass == Core(call.args[2])
        IN  /\ Len(pass) \in 1..3 => Contains(ret[1].errors, ErrPassShort)
            /\ (Len(pass) >= 4 /\ ~Blank(cust)) =>
                   (ret[1].isValid /\ ret[1].errors = <<>>)

\* A password of four characters, three after trimming, is too short.
C6_Witness ==
    /\ LoginReturned
    /\ call.args = <<<<"A">>, <<"a", "a", "a", " ">>>>
    /\ ret[1].errors = <<ErrPassShort>>

B2N(b) == IF b THEN 1 ELSE 0

\* The balance the properties speak of: 2450.35 for account 001, 8120.00
\* for account 002, 0 for any other identifier.
FixedBalance(from) ==
    IF from = "001" THEN 245035 ELSE IF from = "002" THEN 812000 ELSE 0

\* C7 as stated: validateTransfer's errors hold the message of each amount
\* bound that is violated: greater than zero, at most the balance of the
\* source account, at most 10000.
C7_EachAmountBound ==
    TransferReturned =>
        LET amount == ParseFloat(call.args[2])
            balance == FixedBalance(call.args[4])
        IN  amount.kind = "number" =>
                /\ amount.v <= 0 => Contains(ret[1].errors, ErrAmountZero)
                /\ amount.v > balance =>
                       Contains(ret[1].errors, ErrFunds(balance))
                /\ amount.v > TransferLimit =>
                       Contains(ret[1].errors, ErrAmountLimit)

\* The rules of validateTransfer that the arguments violate.
ViolatedRules(to, amountRaw, desc, from) ==
    LET t == Core(to)
        amount == ParseFloat(amountRaw)
        isNum == amount.kind = "number"
    IN  B2N(t = <<>>)
        + B2N(t # <<>> /\ ~WellFormedDestination(t))
        + B2N(~isNum)
        + B2N(isNum /\ amount.v <= 0)
        + B2N(isNum /\ amount.v > FixedBalance(from))
        + B2N(isNum /\ amount.v > TransferLimit)
        + B2N(Len(Core(desc)) > MaxDescLen)

\* C8 as stated: validateTransfer returns as many messages as there are
\* violated rules.
C8_OneMessagePerRule ==
    TransferReturned =>
        Len(ret[1].errors) =
            ViolatedRules(call.args[1], call.args[2], call.args[3], call.args[4])

AmountWithinBounds(amountRaw, from) ==
    LET amount == ParseFloat(amountRaw)
    IN  /\ amount.kind = "number"
        /\ amount.v > 0
        /\ amount.v <= FixedBalance(from)
        /\ amount.v <= TransferLimit

\* C9 as stated: a well-formed destination and an amount within the three
\* bounds make the transfer valid, without errors.
C9_AsStated ==
    TransferReturned =>
        ((WellFormedDestination(Core(call.args[1]))
          /\ AmountWithinBounds(call.args[2], call.args[4]))
            => (ret[1].isValid /\ ret[1].errors = <<>>))

\* C9: a well-formed destination, an amount within the three bounds and a
\* description of at most 40 characters after trimming make the transfer
\* valid, without errors.
C9_ValidTransfer ==
    TransferReturned =>
        ((WellFormedDestination(Core(call.args[1]))
          /\ AmountWithinBounds(call.args[2], call.args[4])
          /\ Len(Core(call.args[3])) <= MaxDescLen)
            => (ret[1].isValid /\ ret[1].errors = <<>>))

\* 50.00 to 062-000 12345678 from the account holding 2450.35 is valid.
C9_Witness ==
    /\ TransferReturned
    /\ call.args = <<SampleTo, <<"5", "0", ".", "0", "0">>, <<>>, "001">>
    /\ BalanceOf("001") = Num(245035)
    /\ ret[1].isValid
    /\ ret[1].errors = <<>>

\* C10 as stated: a destination that does not match the pattern gets the
\* format error, one that matches gets no destination error.
C10_AsStated ==
    TransferReturned =>
        LET to == call.args[1]
        IN  IF WellFormedDestination(to)
            THEN /\ ~Contains(ret[1].errors, ErrToFormat)
                 /\ ~Contains(ret[1].errors, ErrToRequired)
            ELSE Contains(ret[1].errors, ErrToFormat)

\* C10: a destination that is not empty after trimming and then does not
\* match the pattern gets the format error; one that matches the pattern
\* after trimming gets no destination error.
C10_DestinationFormat ==
    TransferReturned =>
        LET to == Core(call.args[1])
        IN  IF WellFormedDestination(to)
            THEN /\ ~Contains(ret[1].errors, ErrToFormat)
                 /\ ~Contains(ret[1].errors, ErrToRequired)
            ELSE to # <<>> => Contains(ret[1].errors, ErrToFormat)

\* Ten account digits are one too many: the format error is returned.
C10_Witness ==
    /\ TransferReturned
    /\ call.args[1] = Rep("0", 3) \o <<"-">> \o Rep("6", 3) \o <<" ">>
                          \o Rep("7", 10)
    /\ ret[1].errors = <<ErrToFormat>>

(***************************************************************************)
(* C11                                                                     *)
(***************************************************************************)
\* Every error of the list closed by a full stop, a space between two.
Sentences(errors) ==
    LET upTo[i \in 0..Len(errors)] ==
            IF i = 0 THEN ""
            ELSE upTo[i - 1] \o (IF i = 1 THEN "" ELSE " ") \o errors[i] \o "."
    IN  upTo[Len(errors)]

LoginRejected ==
    LoginSubmit /\ ~validateLogin(loginForm.cust, loginForm.pass).isValid

TransferRejected ==
    /\ TransferSubmit
    /\ ~validateTransfer(transferForm.to, transferForm.amount,
                         transferForm.desc, transferForm.from).isValid

C12_LoginCompletes ==
    /\ [](loginPending > 0 => ~isAuthed(storage) /\ Visible = {"login"})
    /\ [][(LoginSubmit
            /\ validateLogin(loginForm.cust, loginForm.pass).isValid)
           => loginPending' > 0]_vars
    /\ (loginPending > 0) ~> (isAuthed(storage) /\ Visible = {"dashboard"})

\* The submission of "A1" and "abcd" has completed.
C12_Witness ==
    /\ loginForm.cust = <<"A", "1">>
    /\ loginForm.pass = <<"a", "b", "c", "d">>
    /\ loginPending = 0
    /\ isAuthed(storage)
    /\ Visible = {"dashboard"}
    /\ notified = <<Toast("Successfully logged in!", "success", 4000)>>

(***************************************************************************)
(* C13                                                                     *)
(***************************************************************************)
\* C13: the stored session flag changes only when a login submission
\* completes, to "1", and when the user logs out, to "0"; every other
\* handler leaves it as it was.
C13_FlagWriters ==
    /\ [][storage' # storage =>
              \/ LoginDone /\ storage' = "1"
              \/ Logout /\ storage' = "0"]_vars
    /\ [][(\/ TabClicked \/ TabKeydown \/ LoginSubmit \/ LoginBlur
           \/ TypeLogin \/ TogglePassword \/ TypeTransfer
           \/ TransferSubmit \/ TransferDone \/ TransferBlur
           \/ Reload \/ AnnouncementRemoved)
          => storage' = storage]_vars

\* With a flag no handler wrote, the password was made visible, a login was
\* rejected and the flag is still what it was.
C13_Witness ==
    /\ storage = "true"
    /\ loginForm.passType = "text"
    /\ loginForm.custAria = "true"
    /\ notified = <<Toast(ErrCustRequired, "error", 4000)>>

(***************************************************************************)
(* C14                                                                     *)
(***************************************************************************)
\* C14: every notice showToast creates is in the container at once and is
\* eventually removed; a removed notice never comes back; a notice slides
\* out no sooner than its duration after its creation and is removed no
\* sooner than its duration plus the 300 ms of the fade-out; showToast adds
\* its notice at the end whatever the container holds, and the notices in
\* the container stand in the order of their creation.
C14_NoticeLifetime ==
    /\ [][toastCounter' # toastCounter =>
              /\ toastCounter' = toastCounter + 1
              /\ Len(toasts') = Len(toasts) + 1
              /\ SubSeq(toasts', 1, Len(toasts)) = toasts
              /\ toasts'[Len(toasts')].id = toastCounter
              /\ toasts'[Len(toasts')].elapsed = 0]_vars
    /\ \A id \in ToastIds : Present(id) ~> ~Present(id)
    /\ [][\A id \in ToastIds :
              id < toastCounter /\ ~Present(id) => ~Present(id)']_vars
    /\ [](\A i \in 1..Len(toasts) :
              toasts[i].animation = "slideOut" =>
                  toasts[i].elapsed >= Ticks(toasts[i].duration))
    /\ [][\A id \in ToastIds :
              Present(id) /\ ~Present(id)' =>
                  /\ ToastOf(id).animation = "slideOut"
                  /\ ToastOf(id).elapsed >=
                         Ticks(ToastOf(id).duration) + Ticks(300)]_vars
    /\ [](\A i, j \in 1..Len(toasts) :
              i < j => toasts[i].id < toasts[j].id)

\* Two notices with the same message and type are in the container, the
\* older one sliding out later than its duration.
C14_Witness ==
    /\ Len(toasts) = 2
    /\ toasts[1].message = toasts[2].message
    /\ toasts[1].type = toasts[2].type
    /\ toasts[1].animation = "slideOut"
    /\ toasts[1].elapsed > Ticks(toasts[1].duration) + toasts[1].left
    /\ toasts[2].animation = "slideIn"

(***************************************************************************)
(* C15                                                                     *)
(***************************************************************************)
LoginSuccess == <<Toast("Successfully logged in!", "success", 4000)>>

Loading(button) ==
    /\ button.disabled
    /\ button.ariaBusy = "true"
    /\ ~button.loaderHidden

FieldsOf(form) == <<form.to, form.amount, form.desc, form.from>>

MarkersOf(form) == <<form.toAria, form.amountAria, form.descAria>>

\* What the order of C15 has in common with the order of the code: an
\* accepted submission disables the control and shows the loader before
\* its delay begins; after the delay the success notification comes when
\* the control is enabled and the status cleared; after the notification,
\* for login, the dashboard is shown, which is the last effect, and for
\* transfer the fields are reset and then the validity markers.
C15_CommonOrder ==
    /\ [][LoginSubmit /\ loginPending' # loginPending =>
              Loading(loginForm'.btn) /\ loginPending' = loginPending + 1]_vars
    /\ [][LoginResumed => Loading(loginForm.btn)]_vars
    /\ [][LoginStep /\ notified' # notified =>
              /\ ~loginForm.btn.disabled
              /\ loginForm.status = ""
              /\ notified' = LoginSuccess
              /\ Visible = {"login"}]_vars
    /\ [][LoginStep /\ hidden' # hidden =>
              /\ notified = LoginSuccess
              /\ Visible' = {"dashboard"}
              /\ pc'.todo = <<>>]_vars
    /\ [][TransferSubmit /\ transferPending' # transferPending =>
              /\ Loading(transferForm'.btn)
              /\ Len(transferPending') = Len(transferPending) + 1]_vars
    /\ [][TransferResumed => Loading(transferForm.btn)]_vars
    /\ [][TransferStep /\ notified' # notified =>
              /\ ~transferForm.btn.disabled
              /\ transferForm.status = ""
              /\ Len(notified') = 1
              /\ notified'[1].type = "success"
              /\ FieldsOf(transferForm) # FieldsOf(TransferForm0)]_vars
    /\ [][TransferStep /\ FieldsOf(transferForm') # FieldsOf(transferForm) =>
              /\ Len(notified) = 1
              /\ FieldsOf(transferForm') = FieldsOf(TransferForm0)]_vars
    /\ [][TransferStep /\ MarkersOf(transferForm') # MarkersOf(transferForm) =>
              FieldsOf(transferForm) = FieldsOf(TransferForm0)]_vars
    /\ [][TransferStep /\ pc'.todo = <<>> =>
              /\ MarkersOf(transferForm') = <<"false", "false", "false">>
              /\ FieldsOf(transferForm') = FieldsOf(TransferForm0)]_vars

C16_OneInFlight ==
    /\ [](/\ loginPending \in {0, 1}
          /\ Len(transferPending) \in {0, 1}
          /\ loginForm.btn.disabled = (loginPending = 1)
          /\ transferForm.btn.disabled = (Len(transferPending) = 1)
          /\ (loginForm.btn.ariaBusy = "true") = (loginPending = 1)
          /\ (transferForm.btn.ariaBusy = "true") = (Len(transferPending) = 1))
    /\ [][loginPending' > loginPending => LoginSubmit /\ loginPending = 0]_vars
    /\ [][Len(transferPending') > Len(transferPending) =>
              TransferSubmit /\ transferPending = <<>>]_vars

\* A transfer and, after a logout, a login are in flight together.
C16_Witness ==
    /\ loginPending = 1
    /\ Len(transferPending) = 1
    /\ loginForm.btn.disabled
    /\ transferForm.btn.disabled
    /\ Visible = {"login"}

(***************************************************************************)
(* C17                                                                     *)
(***************************************************************************)
TransferSuccess(data) ==
    <<Toast("Successfully transferred $" \o ToFixed2(data.amount.v) \o " to "
                \o Str(data.to), "success", 5000)>>

\* C17: a submission that has begun its delay completes: the login handler
\* emits its success notification, the transfer handler emits its success
\* notification and resets its form; nothing but the completion itself
\* takes a submission out of flight; a logout or a tab click made while a
\* transfer is in flight acts at once and leaves the transfer in flight.
C17_NoCancellation ==
    /\ (loginPending > 0) ~> (loginPending = 0)
    /\ (transferPending # <<>>) ~> (transferPending = <<>>)
    /\ [][loginPending' < loginPending =>
              LoginDone /\ notified' = LoginSuccess]_vars
    /\ [][Len(transferPending') < Len(transferPending) =>
              /\ TransferDone
              /\ notified' = TransferSuccess(Head(transferPending))
              /\ FieldsOf(transferForm') = FieldsOf(TransferForm0)
              /\ MarkersOf(transferForm') = <<"false", "false", "false">>
              /\ ~transferForm'.btn.disabled]_vars
    /\ [][Logout /\ transferPending # <<>> =>
              /\ Visible' = {"login"}
              /\ storage' = "0"
              /\ transferPending' = transferPending]_vars
    /\ [][TabClicked /\ transferPending # <<>> =>
              /\ \E i \in TabIndex : Visible' = {tabButtons[i]}
              /\ transferPending' = transferPending]_vars

\* A transfer has completed on the login screen: the user logged out while
\* it was in flight.
C17_Witness ==
    /\ Visible = {"login"}
    /\ storage = "0"
    /\ transferPending = <<>>
    /\ Len(notified) = 1
    /\ notified[1].type = "success"
    /\ notified[1].duration = 5000
    /\ FieldsOf(transferForm) = FieldsOf(TransferForm0)
    /\ ~transferForm.btn.disabled

(***************************************************************************)
(* C18                                                                     *)
(***************************************************************************)
\* C18: a submission that fails validation starts no delay, leaves the
\* submit control enabled and not busy, and leaves the session flag, the
\* screens, the tab navigation and the values of the form's fields as they
\* were; the other form is untouched.
C18_RejectedEntirely ==
    /\ [][LoginRejected =>
              /\ loginPending' = loginPending
              /\ loginForm'.btn = loginForm.btn
              /\ ~loginForm'.btn.disabled
              /\ loginForm'.btn.ariaBusy # "true"
              /\ storage' = storage
              /\ navVars' = navVars
              /\ logoutHidden' = logoutHidden
              /\ loginForm'.cust = loginForm.cust
              /\ loginForm'.pass = loginForm.pass
              /\ loginForm'.passType = loginForm.passType
              /\ <<transferForm, transferPending>>' =
                     <<transferForm, transferPending>>]_vars
    /\ [][TransferRejected =>
              /\ transferPending' = transferPending
              /\ transferForm'.btn = transferForm.btn
              /\ ~transferForm'.btn.disabled
              /\ transferForm'.btn.ariaBusy # "true"
              /\ storage' = storage
              /\ navVars' = navVars
              /\ logoutHidden' = logoutHidden
              /\ FieldsOf(transferForm') = FieldsOf(transferForm)
              /\ <<loginForm, loginPending>>' = <<loginForm, loginPending>>]_vars

\* A transfer submission has been rejected: its fields are as typed.
C18_Witness ==
    /\ Visible = {"transfer"}
    /\ notified = <<Toast(transferForm.status, "error", 4000)>>
    /\ transferForm.toAria = "true"
    /\ transferForm.to # <<>>
    /\ transferForm.amount = <<"1", "5", "0", "0", "0">>
    /\ ~transferForm.btn.disabled
    /\ transferPending = <<>>
    /\ isAuthed(storage)

(***************************************************************************)
(* C19                                                                     *)
(***************************************************************************)
\* C19 as stated: whatever the state, validateTransfer bounds the amount
\* by the fixed balance of the source account, 2450.35 for 001 and 8120.00
\* for 002, and by a balance of 0 for an unknown account identifier: an
\* amount above that balance is rejected with the insufficient-funds
\* message naming it, and no amount at or below it gets that message.
C19_FixedBalances ==
    TransferReturned =>
        LET amount == ParseFloat(call.args[2])
            from == call.args[4]
            funds == "Insufficient funds. Available: $"
                         \o (IF from = "001" THEN "2450.35"
                             ELSE IF from = "002" THEN "8120.00" ELSE "0.00")
        IN  (amount.kind = "number" /\ amount.v > 0) =>
                /\ Contains(ret[1].errors, funds)
                       = (amount.v > FixedBalance(from))
                /\ amount.v > FixedBalance(from) => ~ret[1].isValid

(***************************************************************************)
(* C20                                                                     *)
(***************************************************************************)
\* The markers of the login form say which field breaks a rule: a customer
\* ID that is blank, a password that is blank or shorter than 4 characters
\* after trimming.
LoginMarkersRight(form) ==
    /\ form.custAria = (IF Blank(form.cust) THEN "true" ELSE "false")
    /\ form.passAria = (IF Blank(form.pass) \/ Len(Core(form.pass)) < 4
                        THEN "true" ELSE "false")

\* The markers of the transfer form say which field breaks a rule: a
\* destination that is blank or ill-formed, an amount that is no number or
\* outside its bounds, a description longer than 40 characters.
TransferMarkersRight(form) ==
    /\ form.toAria = (IF ~WellFormedDestination(Core(form.to))
                      THEN "true" ELSE "false")
    /\ form.amountAria = (IF ~AmountWithinBounds(form.amount, form.from)
                          THEN "true" ELSE "false")
    /\ form.descAria = (IF Len(Core(form.desc)) > 40 THEN "true" ELSE "false")

\* C20: right after a run of validateLogin or validateTransfer, on submit
\* or on the blur of a field, the validity marker of each field is "true"
\* if and only if the field breaks one of its rules; after a transfer has
\* completed the three markers of the transfer form are "false", and after
\* a logout the two markers of the login form are.
C20_MarkersFollowRules ==
    /\ [][LoginSubmit => LoginMarkersRight(loginForm')]_vars
    /\ [][LoginBlur /\ (\/ loginForm' # loginForm
                        \/ ~Blank(loginForm.cust) /\ ~Blank(loginForm.pass))
           => LoginMarkersRight(loginForm')]_vars
    /\ [][TransferSubmit => TransferMarkersRight(transferForm')]_vars
    /\ [][TransferBlur /\ (\/ transferForm' # transferForm
                           \/ ~Blank(transferForm.to)
                              /\ ~Blank(transferForm.desc))
           => TransferMarkersRight(transferForm')]_vars
    /\ [][TransferDone =>
              MarkersOf(transferForm') = <<"false", "false", "false">>]_vars
    /\ [][Logout =>
              loginForm'.custAria = "false" /\ loginForm'.passAria = "false"]_vars

\* A transfer without destination and with a description of 41 characters
\* was validated: both fields are marked, the amount of 50.00 is not.
C20_Witness ==
    /\ transferForm.to = <<>>
    /\ Len(transferForm.desc) = 41
    /\ MarkersOf(transferForm) = <<"true", "false", "true">>
    /\ transferForm.status = ErrToRequired

(***************************************************************************)
(* C21                                                                     *)
(***************************************************************************)
\* C21: in every state the screen shown is one of dashboard, transactions
\* and transfer exactly when the stored session flag is "1", and it is
\* login exactly when the flag is anything else; the tabs and the logout
\* control show with the app screens only.
C21_SessionGating ==
    /\ (Visible \subseteq {"dashboard", "transactions", "transfer"})
           = (storage = "1")
    /\ (Visible = {"login"}) = (storage # "1")
    /\ tabNavHidden = (storage # "1")
    /\ logoutHidden = (storage # "1")

\* After a login with "A1" and "abcd" the user went to the transactions
\* screen, a transfer being in flight.
C21_Witness ==
    /\ Visible = {"transactions"}
    /\ storage = "1"
    /\ loginForm.cust = <<"A", "1">>
    /\ loginPending = 0
    /\ Len(transferPending) = 1

\* The tab, counted from 0 as tabButtons is, that has the focus after the
\* keys pressed one after the other, the first of them on the tab at index.
RECURSIVE Pressed(_, _)
Pressed(index, keys) ==
    IF keys = <<>> THEN index
    ELSE Pressed(newIndexOf(index, Head(keys)), Tail(keys))

\* The tab at index is the selected one, its screen is the one shown and its
\* button has the focus.
Activated(index) ==
    /\ Visible = {tabButtons[index + 1]}
    /\ tabs = updateActiveTab(tabButtons[index + 1])
    /\ focused = index + 1

====
